---------------------------- MODULE Spec2Model ----------------------------
(***************************************************************************)
(* Model of the single-upstream caching reverse proxy (package single of   *)
(* github.com/afq984/cachingreverseproxy, src/main.go lines 26-361).       *)
(*                                                                         *)
(* One canonical path is modelled.  Every client request is a process      *)
(* that walks through CachingReverseProxy.ServeHTTP; every objectHandle    *)
(* that reaches the end of its once-only init owns one downloader          *)
(* goroutine.  Files are inodes: a name (the tempfile name, the cache      *)
(* path) points at an inode, and an open file keeps its inode after the    *)
(* name is renamed or unlinked.                                            *)
(*                                                                         *)
(* Environment (Go standard library) facts the model relies on:            *)
(*  - an http.ResponseWriter sends status 200 on the first Write when      *)
(*    WriteHeader has not been called, and ignores a later WriteHeader;    *)
(*  - a response body with a known Content-Length never ends cleanly       *)
(*    before Content-Length bytes: a short body surfaces as an error;      *)
(*  - os.File.Read with an empty buffer returns (0, nil);                  *)
(*  - a select with a default case sends on an unbuffered channel only     *)
(*    when a receiver is already parked on it.                             *)
(*  - http.ServeContent, when no Content-Type is set and the extension of  *)
(*    the name has no registered MIME type, reads the content with         *)
(*    io.ReadFull into its sniff buffer and rewinds it before it seeks     *)
(*    for the size and writes the status;                                  *)
(*  - the response to a HEAD request carries no body.                      *)
(***************************************************************************)
EXTENDS Integers, Sequences, FiniteSets, TLC

\* ------------------------------------------------------------ bounds
\* Number of client requests of the full specification.
NumClients == 2
\* Number of client requests of the sequential specification.
NumSeqClients == 3
\* Content-Length of every upstream object, in bytes.
BodySize == 2
\* Number of versions the upstream object goes through.
MaxVer == 2
\* Sub-second resolution of a file modification time (ticks per second).
TicksPerSec == 2

\* ------------------------------------------------------------ constants
StatusOK == 200
StatusPartialContent == 206
StatusNotModified == 304
StatusMethodNotAllowed == 405
StatusInternalServerError == 500
StatusBadGateway == 502

Methods == {"GET", "HEAD", "POST"}
\* How many bytes http.ServeContent reads from the content before it
\* serves it, in the model's bytes.  0: the name of the path has an
\* extension with a registered MIME type, nothing is read.  Otherwise it
\* reads up to the length of its sniff buffer: 1 stands for an object
\* longer than that buffer, BodySize + 1 for an object shorter than it.
SniffLens == {0, 1, BodySize + 1}
\* What the upstream can answer: a cachable object, an object lacking one
\* of the three headers, a 404 carrying all of them, a transport error.
RespKinds == {"ok", "nocl", "badlm", "noar", "notfound", "err"}

VARIABLES
    req,          \* per client request: the locals of ServeHTTP and its reader
    handles,      \* per objectHandle: once, tempPath, trackingWriter, downloader
    files,        \* per inode: content, mtime, whether its tempfile name exists
    cachePath,    \* inode the name <cachedir>/<path> points at, 0 when absent
    objectHandles,\* the registry entry of the path: a handle id, 0 when absent
    allocated,    \* number of objectHandle values installed so far
    upVer,        \* version of the object the upstream serves now
    upstreamReqs, \* number of requests the upstream has received
    sniffLen      \* bytes ServeContent reads to detect the Content-Type

vars == <<req, handles, files, cachePath, objectHandles, allocated, upVer, upstreamReqs,
          sniffLen>>

Clients == DOMAIN req
Handles == DOMAIN handles

\* ------------------------------------------------------------ upstream
\* Body of version v of the object.
Body(v) == [i \in 1..BodySize |-> 10 * v + i]
\* Body of an upstream answer that is not the object.
ErrorPage == <<0>>
\* Last-Modified of version v, in seconds.
LastModified(v) == v
\* Modification time of a file nobody has called Chtimes on ("now").
NowTicks == (MaxVer + 1) * TicksPerSec + 1

\* time.Time.Format(http.TimeFormat): whole seconds.
FormatHTTPTime(ticks) == ticks \div TicksPerSec
\* time.Parse(http.TimeFormat, header): header 0 is absent or malformed.
ParseHTTPTime(h) == IF h >= 1 THEN [err |-> FALSE, t |-> h * TicksPerSec]
                              ELSE [err |-> TRUE, t |-> 0]

NoResp == [kind |-> "none", status |-> 0, cl |-> -1, lm |-> 0, ar |-> FALSE, ver |-> 0]

\* The upstream's answer to a request carrying If-Modified-Since ims
\* (0: no such header) while it serves version v.
UpstreamResponse(kind, v, ims) ==
    [kind   |-> kind,
     status |-> IF kind = "notfound" THEN 404
                ELSE IF kind = "ok" /\ ims >= 1 /\ LastModified(v) <= ims
                     THEN StatusNotModified ELSE StatusOK,
     cl     |-> IF kind = "nocl" THEN -1 ELSE BodySize,
     lm     |-> IF kind = "badlm" THEN 0 ELSE LastModified(v),
     ar     |-> kind # "noar",
     ver    |-> v]

RespBody(resp) == IF resp.status = StatusOK THEN Body(resp.ver) ELSE ErrorPage

\* ------------------------------------------------------------ response writer
\* http.ResponseWriter.WriteHeader: the first status wins.
WriteHeader(w, code) == IF w.status = 0 THEN [w EXCEPT !.status = code] ELSE w
\* http.ResponseWriter.Write: sends 200 when no status was written yet.
WriteBody(w, bytes) == [WriteHeader(w, StatusOK) EXCEPT !.out = @ \o bytes]
\* The bytes of "Only HEAD or GET allowed\n".
OnlyHeadOrGetMsg == <<-405>>
\* The bytes of http.StatusText(code) followed by a newline.
StatusTextMsg(code) == <<-code>>
\* statusError: http.Error(w, http.StatusText(code), code).  The response
\* to a HEAD request carries no body: the server drops the bytes written.
statusError(w, m, code) ==
    IF m = "HEAD" THEN WriteHeader(w, code)
    ELSE WriteBody(WriteHeader(w, code), StatusTextMsg(code))


\* ------------------------------------------------------------ state
NoReader == [kind |-> "none", inode |-> 0, pos |-> 0, readyPos |-> 0,
             seekBeforeRead |-> FALSE, off |-> 0, closed |-> FALSE]

\* A request that has not arrived yet.
NewRequest ==
    [pc         |-> "idle",
     method     |-> "GET",
     rangeStart |-> 0,          \* first byte of the Range header, 0 without one
     cacheFile  |-> 0,          \* inode of the opened cache file, 0 for nil
     ims        |-> 0,          \* If-Modified-Since sent upstream, 0 without one
     resp       |-> NoResp,     \* upstreamResp
     handle     |-> 0,          \* the objectHandle LoadOrStore returned
     rd         |-> NoReader,   \* the reader Get returned
     w          |-> [status |-> 0, out |-> <<>>],   \* what the client received
     lastRead   |-> [n |-> 0, err |-> "none"],      \* result of the last rd.Read
     phase      |-> "none",     \* where ServeContent stands: "sniff", then "copy"
     buf        |-> <<>>,       \* the bytes read into the sniff buffer
     bodyClosed |-> 0,          \* number of Close calls on upstreamResp.Body
     gone       |-> FALSE,      \* the client disconnected mid-stream
     overlap    |-> {}]         \* the requests in flight when this one arrived

\* An objectHandle nobody has installed yet.
NewHandle ==
    [once     |-> FALSE,        \* h.once has run
     tempPath |-> 0,            \* inode of h.tempPath, 0 for ""
     size     |-> 0,            \* trackingWriter.size
     written  |-> 0,            \* trackingWriter.written
     done     |-> FALSE,        \* trackingWriter.done is closed
     sent     |-> {},           \* the readers the running update has sent to
     dl       |-> "none",       \* where the downloader goroutine stands
     owner    |-> 0,            \* the request whose body the downloader copies
     ver      |-> 0,            \* version of that body
     modTime  |-> 0,            \* the modTime argument of Get
     err      |-> FALSE,        \* the downloader's err
     renamed  |-> FALSE]        \* the downloader renamed its tempfile

NewFile == [content |-> <<>>, mtime |-> 0, temp |-> FALSE]

InitWith(n) ==
    /\ req = [r \in 1..n |-> NewRequest]
    /\ handles = [h \in 1..n |-> NewHandle]
    /\ files = [i \in 1..n |-> NewFile]
    /\ cachePath = 0
    /\ objectHandles = 0
    /\ allocated = 0
    /\ upVer = 1
    /\ upstreamReqs = 0
    /\ sniffLen \in SniffLens

Init == InitWith(NumClients)

Min(a, b) == IF a < b THEN a ELSE b

\* ------------------------------------------------------------ ServeHTTP
\* main.go:64: the method gate.
MethodAllowed(m) == m = "HEAD" \/ m = "GET"

\* main.go:65-66: the body is written first, the status after it.
RejectMethod(w) == WriteHeader(WriteBody(w, OnlyHeadOrGetMsg), StatusMethodNotAllowed)

\* Mutant of IsCachable: the method is not tested.
IsCachableAnyMethod(m, resp) ==
    /\ resp.status = StatusOK
    /\ resp.ar
    /\ resp.cl # -1
    /\ ~ParseHTTPTime(resp.lm).err

\* main.go:126: the condition of the cache-through branch.
IsCachable(m, resp) ==
    /\ m = "GET"
    /\ resp.status = StatusOK
    /\ resp.ar
    /\ resp.cl # -1
    /\ ~ParseHTTPTime(resp.lm).err

\* http.ServeContent over a complete file: the status, then for GET the
\* bytes from the start of the range, read and written in one piece.
\* gone: the client has disconnected and the write of the bytes fails.
ServeContent(w, m, k, content, gone) ==
    LET w1 == WriteHeader(w, IF k > 0 THEN StatusPartialContent ELSE StatusOK)
    IN IF m = "GET" /\ k < Len(content) /\ ~gone
       THEN WriteBody(w1, SubSeq(content, k + 1, Len(content)))
       ELSE w1

\* Whether http.ServeContent over a complete file writes bytes, so that a
\* client that has disconnected is noticed.
ServeContentWrites(m, k, content) == m = "GET" /\ k < Len(content)

\* main.go:145-165: pass-through.  gone: the client has disconnected and
\* io.Copy fails at its write (main.go:160-163).
PassThrough(w, m, resp, gone) ==
    LET w1 == WriteHeader(w, resp.status)
    IN IF m = "GET" /\ ~gone THEN WriteBody(w1, RespBody(resp)) ELSE w1

\* main.go:159-165: only a GET closes the body on the pass-through path,
\* whether the copy failed or not.
PassThroughCloses(m) == IF m = "GET" THEN 1 ELSE 0

\* Requests are numbered in the order they arrive.
Arrives(r) ==
    /\ req[r].pc = "idle"
    /\ \A o \in Clients : o < r => req[o].pc # "idle"

\* The requests the server is handling.
InFlight == {o \in Clients : req[o].pc \notin {"idle", "done"}}

\* main.go:64-68: a request with a method other than GET or HEAD.
Reject(r, m) ==
    /\ Arrives(r)
    /\ ~MethodAllowed(m)
    /\ req' = [req EXCEPT ![r] = [@ EXCEPT !.pc = "done", !.method = m,
                                           !.w = RejectMethod(@)]]
    /\ UNCHANGED <<handles, files, cachePath, objectHandles, allocated, upVer, upstreamReqs,
                 sniffLen>>

\* main.go:64-95: the method gate passed, the cache file is opened and
\* its mtime becomes If-Modified-Since.  k is the start of the client's
\* Range header, if any.
Begin(r, m, k) ==
    /\ Arrives(r)
    /\ MethodAllowed(m)
    /\ k = 0 \/ m = "GET"
    /\ req' = [req EXCEPT ![r] = [@ EXCEPT
                 !.pc = "do", !.method = m, !.rangeStart = k,
                 !.overlap = InFlight,
                 !.cacheFile = cachePath,
                 !.ims = IF cachePath # 0
                         THEN FormatHTTPTime(files[cachePath].mtime) ELSE 0]]
    /\ UNCHANGED <<handles, files, cachePath, objectHandles, allocated, upVer, upstreamReqs,
                 sniffLen>>

\* main.go:97-108, 145-165: the upstream request and every branch that
\* ends the request without touching the registry.  gone: the client has
\* disconnected when the handler writes the bytes of the response.
Do(r, kind, gone) ==
    /\ req[r].pc = "do"
    /\ upstreamReqs' = upstreamReqs + 1
    /\ LET q == req[r]
           resp == UpstreamResponse(kind, upVer, q.ims)
       IN req' = [req EXCEPT ![r] =
            IF kind = "err"
            THEN [q EXCEPT !.pc = "done", !.w = statusError(@, q.method, StatusBadGateway)]
            ELSE IF resp.status = StatusNotModified
            THEN [q EXCEPT !.pc = "done", !.resp = resp,
                           !.gone = gone /\ ServeContentWrites(q.method, q.rangeStart,
                                                               files[q.cacheFile].content),
                           !.w = ServeContent(@, q.method, q.rangeStart,
                                              files[q.cacheFile].content, gone)]
            ELSE IF IsCachable(q.method, resp)
            THEN [q EXCEPT !.pc = "los", !.resp = resp]
            ELSE [q EXCEPT !.pc = "done", !.resp = resp,
                           !.gone = gone /\ q.method = "GET",
                           !.w = PassThrough(@, q.method, resp, gone),
                           !.bodyClosed = @ + PassThroughCloses(q.method)]]
    /\ UNCHANGED <<handles, files, cachePath, objectHandles, allocated, upVer, sniffLen>>

\* Mutant of LoadOrStoreResult: a plain Store.
StoreAlways(present, fresh) == fresh

\* sync.Map.LoadOrStore on one key: the handle present, else a fresh one.
LoadOrStoreResult(present, fresh) == IF present # 0 THEN present ELSE fresh

\* main.go:128-132.
LoadOrStore(r) ==
    /\ req[r].pc = "los"
    /\ LET h == LoadOrStoreResult(objectHandles, allocated + 1)
       IN /\ req' = [req EXCEPT ![r] = [@ EXCEPT !.pc = "get", !.handle = h]]
          /\ objectHandles' = h
          /\ allocated' = IF h = allocated + 1 THEN allocated + 1 ELSE allocated
    /\ UNCHANGED <<handles, files, cachePath, upVer, upstreamReqs, sniffLen>>

\* ------------------------------------------------------------ objectHandle.Get
\* main.go:186-231: the once-only init.  ok is whether MkdirAll and
\* TempFile both succeed; the tempfile of handle h is inode h.  On
\* success the downloader goroutine is spawned and owns the body.
OnceInit(hd, h, r, resp, ok) ==
    IF ok
    THEN [hd EXCEPT !.once = TRUE, !.tempPath = h, !.size = resp.cl,
                    !.written = 0, !.done = FALSE, !.dl = "copy", !.owner = r,
                    !.ver = resp.ver, !.modTime = ParseHTTPTime(resp.lm).t]
    ELSE [hd EXCEPT !.once = TRUE]

GetInit(r, ok) ==
    /\ req[r].pc = "get"
    /\ LET h == req[r].handle
       IN /\ ~handles[h].once
          /\ handles' = [handles EXCEPT ![h] = OnceInit(@, h, r, req[r].resp, ok)]
          /\ files' = IF ok THEN [files EXCEPT ![h] =
                                    [content |-> <<>>, mtime |-> NowTicks, temp |-> TRUE]]
                            ELSE files
    /\ req' = [req EXCEPT ![r].pc = "open"]
    /\ UNCHANGED <<cachePath, objectHandles, allocated, upVer, upstreamReqs, sniffLen>>

\* main.go:178-183, 200: Get closes the body unless this call spawned the
\* downloader.
GetClosesBody(hd, r) == IF hd.owner = r THEN 0 ELSE 1

\* main.go:234-252: which file Get opens: "temp" (the tempfile, wrapped in
\* a partiallyDownloadedFile), "cache" (the file at cachePath) or "error".
GetOpens(hd, fs, cp) ==
    IF hd.tempPath # 0 /\ fs[hd.tempPath].temp THEN "temp"
    ELSE IF cp # 0 THEN "cache"
    ELSE "error"

\* main.go:338-348: the absolute position a seek asks for; -1 for an
\* unsupported whence.
SeekTarget(rd, size, offset, whence) ==
    CASE whence = "SeekStart"   -> offset
      [] whence = "SeekCurrent" -> rd.pos + offset
      [] whence = "SeekEnd"     -> size + offset
      [] OTHER                  -> -1

\* Mutant of Seek: seekBeforeRead is not set.
SeekWithoutFlag(rd, size, offset, whence) ==
    IF SeekTarget(rd, size, offset, whence) < 0 THEN rd
    ELSE [rd EXCEPT !.pos = SeekTarget(rd, size, offset, whence)]

\* partiallyDownloadedFile.Seek, main.go:337-355: a negative position or
\* an unsupported whence is an error and leaves the reader as it is.
Seek(rd, size, offset, whence) ==
    IF SeekTarget(rd, size, offset, whence) < 0 THEN rd
    ELSE [rd EXCEPT !.pos = SeekTarget(rd, size, offset, whence),
                    !.seekBeforeRead = TRUE]

\* http.ServeContent's seeks on the reader before it copies: to the end
\* for the size, back to the start, then to the start of the range.
ServeContentSeeks(rd, size, k) ==
    LET atEnd == Seek(rd, size, 0, "SeekEnd")
        atStart == Seek(atEnd, size, 0, "SeekStart")
    IN IF k > 0 THEN Seek(atStart, size, k, "SeekStart") ELSE atStart

\* http.ServeContent rewinds the content after the sniff.
SniffRewind(rd, size) == Seek(rd, size, 0, "SeekStart")

\* The status http.ServeContent writes: 206 for a range, else 200.
ServeContentCode(k) == IF k > 0 THEN StatusPartialContent ELSE StatusOK

\* main.go:233-253 and 134-143: Get attaches a reader (a caller that did
\* not run the init skips once.Do), then ServeContent starts.  When the
\* name has a registered MIME type it seeks to the end for the size, to
\* the start, to the start of the range, and writes the status; else it
\* first reads the sniff buffer through the reader, and nothing is sent
\* yet.  A complete file is served in one go.
GetOpen(r, gone) ==
    /\ \/ req[r].pc = "open"
       \/ req[r].pc = "get" /\ handles[req[r].handle].once
    /\ LET q == req[r]
           hd == handles[q.handle]
           which == GetOpens(hd, files, cachePath)
           closes == GetClosesBody(hd, r)
           fresh == [NoReader EXCEPT !.kind = "partial", !.inode = hd.tempPath]
       IN req' = [req EXCEPT ![r] =
            IF which = "temp" /\ sniffLen = 0
            THEN [q EXCEPT !.pc = "read", !.phase = "copy", !.bodyClosed = @ + closes,
                           !.rd = ServeContentSeeks(fresh, hd.size, q.rangeStart),
                           !.w = WriteHeader(@, ServeContentCode(q.rangeStart))]
            ELSE IF which = "temp"
            THEN [q EXCEPT !.pc = "read", !.phase = "sniff", !.bodyClosed = @ + closes,
                           !.rd = fresh]
            ELSE IF which = "cache"
            THEN [q EXCEPT !.pc = "done", !.bodyClosed = @ + closes,
                           !.rd = [NoReader EXCEPT !.kind = "file", !.inode = cachePath,
                                                   !.closed = TRUE],
                           !.gone = gone /\ ServeContentWrites(q.method, q.rangeStart,
                                                               files[cachePath].content),
                           !.w = ServeContent(@, q.method, q.rangeStart,
                                              files[cachePath].content, gone)]
            ELSE [q EXCEPT !.pc = "done", !.bodyClosed = @ + closes,
                           !.w = statusError(@, q.method, StatusInternalServerError)]]
    /\ UNCHANGED <<handles, files, cachePath, objectHandles, allocated, upVer, upstreamReqs,
                 sniffLen>>

\* ------------------------------------------------------------ partiallyDownloadedFile
\* The trackingWriter a partial reader follows: handle h wrote inode h.
WriterOf(rd) == handles[rd.inode]

\* main.go:310: the first test of Read.
AtEnd(rd, size) == rd.pos >= size

\* main.go:314: the condition of the wait loop.
MustWait(rd) == rd.pos >= rd.readyPos

\* Mutant of ClampLen: the buffer is not clamped.
NoClamp(rd, len) == len

\* main.go:329-331: the length of the buffer after the clamp, -1 when the
\* slice bound is negative (the slice expression panics).
ClampLen(rd, len) ==
    IF rd.readyPos - rd.pos < len
    THEN (IF rd.readyPos - rd.pos < 0 THEN -1 ELSE rd.readyPos - rd.pos)
    ELSE len

\* os.File.Read at offset off with a buffer of len bytes: an empty buffer
\* gives (0, nil), the end of the file (0, EOF).
FileRead(content, off, len) ==
    IF len = 0 THEN [n |-> 0, err |-> "nil"]
    ELSE IF off >= Len(content) THEN [n |-> 0, err |-> "EOF"]
    ELSE [n |-> Min(len, Len(content) - off), err |-> "nil"]

\* main.go:322-334: Read once the wait loop is left.  len is the length
\* of the caller's buffer.  Gives the reader after the call, the bytes
\* and the result.
ReadData(rd, content, len) ==
    LET off == IF rd.seekBeforeRead THEN rd.pos ELSE rd.off
        clamped == ClampLen(rd, len)
        res == FileRead(content, off, clamped)
    IN IF clamped < 0
       THEN [rd |-> [rd EXCEPT !.off = off, !.seekBeforeRead = FALSE],
             bytes |-> <<>>, n |-> 0, err |-> "panic"]
       ELSE [rd |-> [rd EXCEPT !.off = off + res.n, !.seekBeforeRead = FALSE,
                               !.pos = rd.pos + res.n],
             bytes |-> SubSeq(content, off + 1, off + res.n),
             n |-> res.n, err |-> res.err]

\* main.go:314-316: Read finds pos >= readyPos and parks in the select.
ReadPark(r) ==
    /\ req[r].pc = "read"
    /\ ~AtEnd(req[r].rd, WriterOf(req[r].rd).size)
    /\ MustWait(req[r].rd)
    /\ req' = [req EXCEPT ![r].pc = "parked"]
    /\ UNCHANGED <<handles, files, cachePath, objectHandles, allocated, upVer, upstreamReqs,
                 sniffLen>>

\* Mutant of RecvDone: done is taken to mean that the download is complete.
RecvDoneAssumesComplete(r) ==
    /\ req[r].pc = "parked"
    /\ WriterOf(req[r].rd).done
    /\ req' = [req EXCEPT ![r].pc = "ready",
                          ![r].rd.readyPos = WriterOf(req[r].rd).size]
    /\ UNCHANGED <<handles, files, cachePath, objectHandles, allocated, upVer, upstreamReqs,
                 sniffLen>>

\* main.go:317-319: a parked Read takes the done branch and leaves the loop.
RecvDone(r) ==
    /\ req[r].pc = "parked"
    /\ WriterOf(req[r].rd).done
    /\ req' = [req EXCEPT ![r].pc = "ready",
                          ![r].rd.readyPos = WriterOf(req[r].rd).written]
    /\ UNCHANGED <<handles, files, cachePath, objectHandles, allocated, upVer, upstreamReqs,
                 sniffLen>>

\* The length of the buffer the next Read gets: io.ReadFull hands over
\* what is left of the sniff buffer, io.CopyN what is left to send.
BufLen(q, size) == IF q.phase = "sniff" THEN sniffLen - Len(q.buf) ELSE size - q.rd.pos

\* The request after one Read of io.ReadFull (the sniff): the bytes go to
\* the sniff buffer; the sniff ends when the buffer is full or on an
\* error, and goes on after a read of no byte without error.
AfterSniffRead(q, res) ==
    LET q1 == [q EXCEPT !.rd = res.rd, !.buf = @ \o res.bytes,
                        !.lastRead = [n |-> res.n, err |-> res.err]]
    IN IF res.err = "panic" THEN [q1 EXCEPT !.pc = "done"]
       ELSE IF res.err = "EOF" \/ Len(q1.buf) >= sniffLen
       THEN [q1 EXCEPT !.pc = "serve"]
       ELSE [q1 EXCEPT !.pc = "read"]

\* The request after one Read of io.CopyN (main.go:140-141): the bytes go
\* to the client; the copy ends when everything was sent, on an error, or
\* when Read panics (then rd is never closed).
AfterRead(q, res, size) ==
    LET q1 == [q EXCEPT !.rd = res.rd, !.w = WriteBody(@, res.bytes),
                        !.lastRead = [n |-> res.n, err |-> res.err]]
    IN IF q.phase = "sniff" THEN AfterSniffRead(q, res)
       ELSE IF res.err = "panic" THEN [q1 EXCEPT !.pc = "done", !.w = q.w]
       ELSE IF res.err = "EOF" \/ res.rd.pos >= size
       THEN [q1 EXCEPT !.pc = "done", !.rd.closed = TRUE]
       ELSE [q1 EXCEPT !.pc = "read"]

\* main.go:309-335: whether the next Read of the request returns without
\* parking: it returns end-of-stream at once (pos >= size), its wait loop
\* does not park (pc "read"), or its wait loop was left through done (pc
\* "ready").
CanRead(q) ==
    \/ q.pc = "ready"
    \/ /\ q.pc = "read"
       /\ \/ AtEnd(q.rd, WriterOf(q.rd).size)
          \/ ~MustWait(q.rd)

\* main.go:309-335: what that Read returns.
ReadResult(q, content) ==
    LET size == WriterOf(q.rd).size
    IN IF q.pc = "read" /\ AtEnd(q.rd, size)
       THEN [rd |-> q.rd, bytes |-> <<>>, n |-> 0, err |-> "EOF"]
       ELSE ReadData(q.rd, content, BufLen(q, size))

\* main.go:309-335 under io.ReadFull or io.CopyN: one Read, and for
\* io.CopyN the write of its bytes to the client.
ReadStep(r) ==
    /\ CanRead(req[r])
    /\ LET q == req[r]
           res == ReadResult(q, files[q.rd.inode].content)
       IN req' = [req EXCEPT ![r] = AfterRead(q, res, WriterOf(q.rd).size)]
    /\ UNCHANGED <<handles, files, cachePath, objectHandles, allocated, upVer, upstreamReqs,
                 sniffLen>>

\* http.ServeContent after the sniff: it rewinds the content, seeks to
\* the end for the size, to the start, to the start of the range, and
\* writes the status; io.CopyN follows.
ServeStart(r) ==
    /\ req[r].pc = "serve"
    /\ LET q == req[r]
           size == WriterOf(q.rd).size
       IN req' = [req EXCEPT ![r] =
            [q EXCEPT !.pc = "read", !.phase = "copy",
                      !.rd = ServeContentSeeks(SniffRewind(q.rd, size), size, q.rangeStart),
                      !.w = WriteHeader(@, ServeContentCode(q.rangeStart))]]
    /\ UNCHANGED <<handles, files, cachePath, objectHandles, allocated, upVer, upstreamReqs,
                 sniffLen>>

\* The client has disconnected mid-stream: io.CopyN reads as in ReadStep,
\* the write of the bytes it read fails, ServeContent returns and the
\* handler closes the reader (main.go:140-141, 357-359).  A Read of no
\* byte is followed by no write.
ClientGone(r) ==
    /\ req[r].phase = "copy"
    /\ CanRead(req[r])
    /\ LET q == req[r]
           res == ReadResult(q, files[q.rd.inode].content)
       IN /\ res.n >= 1
          /\ req' = [req EXCEPT ![r] =
                [q EXCEPT !.pc = "done", !.gone = TRUE,
                          !.rd = [res.rd EXCEPT !.closed = TRUE],
                          !.lastRead = [n |-> res.n, err |-> res.err]]]
    /\ UNCHANGED <<handles, files, cachePath, objectHandles, allocated, upVer, upstreamReqs,
                 sniffLen>>

\* ------------------------------------------------------------ downloader goroutine
\* The readers parked in the select of Read on handle h's writer.
Parked(h) == {r \in Clients : req[r].pc = "parked" /\ req[r].rd.inode = h}

\* main.go:205, 272-279: io.Copy hands the next n bytes of the body to
\* trackingWriter.Write, which appends them to the tempfile and adds n to
\* written.
DlWrite(h, n) ==
    /\ handles[h].dl = "copy"
    /\ n >= 1
    /\ handles[h].written + n <= handles[h].size
    /\ files' = [files EXCEPT ![h].content =
                   @ \o SubSeq(Body(handles[h].ver), handles[h].written + 1,
                               handles[h].written + n)]
    /\ handles' = [handles EXCEPT ![h].written = @ + n, ![h].dl = "update",
                                  ![h].sent = {}]
    /\ UNCHANGED <<req, cachePath, objectHandles, allocated, upVer, upstreamReqs, sniffLen>>

\* main.go:280-283: update delivers written to one parked reader and
\* loops.
DlUpdateSend(h, r) ==
    /\ handles[h].dl = "update"
    /\ r \in Parked(h)
    /\ req' = [req EXCEPT ![r].pc = "read", ![r].rd.readyPos = handles[h].written]
    /\ handles' = [handles EXCEPT ![h].sent = @ \cup {r}]
    /\ UNCHANGED <<files, cachePath, objectHandles, allocated, upVer, upstreamReqs, sniffLen>>

\* main.go:283-285, 205-207: no reader is parked, update takes the
\* default case and Write returns; io.Copy goes on, or returns the error
\* of the write.
DlUpdateReturn(h) ==
    /\ handles[h].dl = "update"
    /\ Parked(h) = {}
    /\ handles' = [handles EXCEPT ![h].dl = IF handles[h].err THEN "close" ELSE "copy",
                                  ![h].sent = {}]
    /\ UNCHANGED <<req, files, cachePath, objectHandles, allocated, upVer, upstreamReqs,
                 sniffLen>>

\* main.go:205, 272-276: the write to the tempfile fails after n bytes of
\* a longer piece; trackingWriter.Write still calls update(n), which adds
\* n to written and runs the send loop, before io.Copy gets the error.
DlWriteErr(h, n) ==
    /\ handles[h].dl = "copy"
    /\ n >= 0
    /\ handles[h].written + n < handles[h].size
    /\ files' = [files EXCEPT ![h].content =
                   @ \o SubSeq(Body(handles[h].ver), handles[h].written + 1,
                               handles[h].written + n)]
    /\ handles' = [handles EXCEPT ![h].written = @ + n, ![h].dl = "update",
                                  ![h].sent = {}, ![h].err = TRUE]
    /\ UNCHANGED <<req, cachePath, objectHandles, allocated, upVer, upstreamReqs, sniffLen>>

\* main.go:205-207: io.Copy fails at a Read of the body before it is
\* complete (a read error, a body shorter than Content-Length); no Write
\* is called.
DlCopyErr(h) ==
    /\ handles[h].dl = "copy"
    /\ handles[h].written < handles[h].size
    /\ handles' = [handles EXCEPT ![h].err = TRUE, ![h].dl = "close"]
    /\ UNCHANGED <<req, files, cachePath, objectHandles, allocated, upVer, upstreamReqs,
                 sniffLen>>

\* Mutant of DlChtimes: the access time and the modification time are
\* swapped, the mtime becomes time.Now().
DlChtimesSwapped(h, ok) ==
    /\ handles[h].dl = "copy"
    /\ handles[h].written = handles[h].size
    /\ files' = IF ok THEN [files EXCEPT ![h].mtime = NowTicks] ELSE files
    /\ handles' = [handles EXCEPT ![h].err = ~ok, ![h].dl = "close"]
    /\ UNCHANGED <<req, cachePath, objectHandles, allocated, upVer, upstreamReqs, sniffLen>>

\* Mutant of DlChtimes: a failure of Chtimes is logged and forgotten.
DlChtimesIgnoresError(h, ok) ==
    /\ handles[h].dl = "copy"
    /\ handles[h].written = handles[h].size
    /\ files' = IF ok THEN [files EXCEPT ![h].mtime = handles[h].modTime] ELSE files
    /\ handles' = [handles EXCEPT ![h].dl = "close"]
    /\ UNCHANGED <<req, cachePath, objectHandles, allocated, upVer, upstreamReqs, sniffLen>>

\* main.go:208-215: io.Copy returned without error; Chtimes sets the
\* tempfile's mtime to modTime, or fails and sets err.
DlChtimes(h, ok) ==
    /\ handles[h].dl = "copy"
    /\ handles[h].written = handles[h].size
    /\ files' = IF ok THEN [files EXCEPT ![h].mtime = handles[h].modTime] ELSE files
    /\ handles' = [handles EXCEPT ![h].err = ~ok, ![h].dl = "close"]
    /\ UNCHANGED <<req, cachePath, objectHandles, allocated, upVer, upstreamReqs, sniffLen>>

\* Mutant of DlClose: the writer is closed after a failed copy and the
\* copy is then resumed.
DlCloseThenResume(h) ==
    /\ handles[h].dl = "close"
    /\ handles' = [handles EXCEPT ![h].done = TRUE,
                                  ![h].dl = IF handles[h].written < handles[h].size
                                            THEN "copy" ELSE "dispose"]
    /\ UNCHANGED <<req, files, cachePath, objectHandles, allocated, upVer, upstreamReqs,
                 sniffLen>>

\* Mutant of DlClose: the tempfile is closed, done is not.
DlCloseLeavesDoneOpen(h) ==
    /\ handles[h].dl = "close"
    /\ handles' = [handles EXCEPT ![h].dl = "dispose"]
    /\ UNCHANGED <<req, files, cachePath, objectHandles, allocated, upVer, upstreamReqs,
                 sniffLen>>

\* main.go:221, 289-293: trackingWriter.Close closes done.
DlClose(h) ==
    /\ handles[h].dl = "close"
    /\ handles' = [handles EXCEPT ![h].done = TRUE, ![h].dl = "dispose"]
    /\ UNCHANGED <<req, files, cachePath, objectHandles, allocated, upVer, upstreamReqs,
                 sniffLen>>

\* Mutant of ShouldRename: the tempfile is renamed whatever err is.
RenameAlways(hd) == TRUE

\* main.go:223: whether the tempfile is renamed to the cache path.
ShouldRename(hd) == ~hd.err

\* main.go:223-227: rename the tempfile over the cache path, or remove it.
DlDispose(h) ==
    /\ handles[h].dl = "dispose"
    /\ files' = [files EXCEPT ![h].temp = FALSE]
    /\ cachePath' = IF ShouldRename(handles[h]) THEN h ELSE cachePath
    /\ handles' = [handles EXCEPT ![h].dl = "delete",
                                  ![h].renamed = ShouldRename(handles[h])]
    /\ UNCHANGED <<req, objectHandles, allocated, upVer, upstreamReqs, sniffLen>>

\* Mutant of DeleteResult: the entry is left in the registry.
DeleteNothing(present) == present

\* sync.Map.Delete on the path's key: unconditional.
DeleteResult(present) == 0

\* main.go:229 and 202: the handle leaves the registry, then the deferred
\* body.Close runs and the goroutine ends.
DlDelete(h) ==
    /\ handles[h].dl = "delete"
    /\ objectHandles' = DeleteResult(objectHandles)
    /\ handles' = [handles EXCEPT ![h].dl = "end"]
    /\ req' = [req EXCEPT ![handles[h].owner].bodyClosed = @ + 1]
    /\ UNCHANGED <<files, cachePath, allocated, upVer, upstreamReqs, sniffLen>>

\* ------------------------------------------------------------ environment
\* The upstream replaces the object by a version with a newer
\* Last-Modified.
UpstreamUpdate ==
    /\ upVer < MaxVer
    /\ upVer' = upVer + 1
    /\ UNCHANGED <<req, handles, files, cachePath, objectHandles, allocated, upstreamReqs,
                 sniffLen>>

\* ------------------------------------------------------------ specification
Next ==
    \/ \E r \in Clients, m \in Methods : Reject(r, m)
    \/ \E r \in Clients, m \in Methods, k \in 0..(BodySize - 1) : Begin(r, m, k)
    \/ \E r \in Clients, kind \in RespKinds, gone \in BOOLEAN : Do(r, kind, gone)
    \/ \E r \in Clients : LoadOrStore(r)
    \/ \E r \in Clients, ok \in BOOLEAN : GetInit(r, ok)
    \/ \E r \in Clients, gone \in BOOLEAN : GetOpen(r, gone)
    \/ \E r \in Clients : ReadPark(r)
    \/ \E r \in Clients : RecvDone(r)
    \/ \E r \in Clients : ReadStep(r)
    \/ \E r \in Clients : ServeStart(r)
    \/ \E r \in Clients : ClientGone(r)
    \/ \E h \in Handles, n \in 1..BodySize : DlWrite(h, n)
    \/ \E h \in Handles, r \in Clients : DlUpdateSend(h, r)
    \/ \E h \in Handles : DlUpdateReturn(h)
    \/ \E h \in Handles, n \in 0..BodySize - 1 : DlWriteErr(h, n)
    \/ \E h \in Handles : DlCopyErr(h)
    \/ \E h \in Handles, ok \in BOOLEAN : DlChtimes(h, ok)
    \/ \E h \in Handles : DlClose(h)
    \/ \E h \in Handles : DlDispose(h)
    \/ \E h \in Handles : DlDelete(h)
    \/ UpstreamUpdate

Spec == Init /\ [][Next]_vars

\* Requests one after the other: a request arrives only when no other
\* request is being handled and no downloader is running.
Quiescent ==
    /\ InFlight = {}
    /\ \A h \in Handles : handles[h].dl \in {"none", "end"}

SeqInit == InitWith(NumSeqClients)

\* The round trip of one cachable object: GET requests without a Range
\* header, an upstream that answers with all the headers; the filesystem,
\* the body and the clients may still fail.
SeqNext ==
    \/ \E r \in Clients : Quiescent /\ Begin(r, "GET", 0)
    \/ \E r \in Clients, gone \in BOOLEAN : Do(r, "ok", gone)
    \/ \E r \in Clients : LoadOrStore(r)
    \/ \E r \in Clients, ok \in BOOLEAN : GetInit(r, ok)
    \/ \E r \in Clients, gone \in BOOLEAN : GetOpen(r, gone)
    \/ \E r \in Clients : ReadPark(r)
    \/ \E r \in Clients : RecvDone(r)
    \/ \E r \in Clients : ReadStep(r)
    \/ \E r \in Clients : ServeStart(r)
    \/ \E r \in Clients : ClientGone(r)
    \/ \E h \in Handles, n \in 1..BodySize : DlWrite(h, n)
    \/ \E h \in Handles, r \in Clients : DlUpdateSend(h, r)
    \/ \E h \in Handles : DlUpdateReturn(h)
    \/ \E h \in Handles, n \in 0..BodySize - 1 : DlWriteErr(h, n)
    \/ \E h \in Handles : DlCopyErr(h)
    \/ \E h \in Handles, ok \in BOOLEAN : DlChtimes(h, ok)
    \/ \E h \in Handles : DlClose(h)
    \/ \E h \in Handles : DlDispose(h)
    \/ \E h \in Handles : DlDelete(h)
    \/ UpstreamUpdate

SeqSpec == SeqInit /\ [][SeqNext]_vars

\* The download of one version of a cachable object by concurrent GET
\* requests, with or without a Range header; the filesystem, the body and
\* the clients may fail.
LiveNext ==
    \/ \E r \in Clients, k \in 0..(BodySize - 1) : Begin(r, "GET", k)
    \/ \E r \in Clients, gone \in BOOLEAN : Do(r, "ok", gone)
    \/ \E r \in Clients : LoadOrStore(r)
    \/ \E r \in Clients, ok \in BOOLEAN : GetInit(r, ok)
    \/ \E r \in Clients, gone \in BOOLEAN : GetOpen(r, gone)
    \/ \E r \in Clients : ReadPark(r)
    \/ \E r \in Clients : RecvDone(r)
    \/ \E r \in Clients : ReadStep(r)
    \/ \E r \in Clients : ServeStart(r)
    \/ \E r \in Clients : ClientGone(r)
    \/ \E h \in Handles, n \in 1..BodySize : DlWrite(h, n)
    \/ \E h \in Handles, r \in Clients : DlUpdateSend(h, r)
    \/ \E h \in Handles : DlUpdateReturn(h)
    \/ \E h \in Handles, n \in 0..BodySize - 1 : DlWriteErr(h, n)
    \/ \E h \in Handles : DlCopyErr(h)
    \/ \E h \in Handles, ok \in BOOLEAN : DlChtimes(h, ok)
    \/ \E h \in Handles : DlClose(h)
    \/ \E h \in Handles : DlDispose(h)
    \/ \E h \in Handles : DlDelete(h)

\* The proxy is constructed over a cache directory that already holds the
\* object, cached from version 1 by an earlier run: the file is complete
\* and its mtime is the Last-Modified of version 1.
WarmInit ==
    /\ req = [r \in 1..NumClients |-> NewRequest]
    /\ handles = [h \in 1..NumClients |-> NewHandle]
    /\ files = [i \in 1..(NumClients + 1) |->
                  IF i = NumClients + 1
                  THEN [content |-> Body(1), mtime |-> ParseHTTPTime(LastModified(1)).t,
                        temp |-> FALSE]
                  ELSE NewFile]
    /\ cachePath = NumClients + 1
    /\ objectHandles = 0
    /\ allocated = 0
    /\ upVer = 1
    /\ upstreamReqs = 0
    /\ sniffLen \in SniffLens

\* Concurrent GET requests for the object while the upstream may replace
\* it by a newer version.
WarmNext == LiveNext \/ UpstreamUpdate

WarmSpec == WarmInit /\ [][WarmNext]_vars

\* The downloader goroutine keeps running: each of its steps, and each
\* send of update to a reader that stays parked, is taken if it stays
\* possible (weak fairness only: the send loop may spin).
DlRuns ==
    \A h \in 1..NumClients :
        /\ WF_vars(\E n \in 1..BodySize : DlWrite(h, n))
        /\ \A r \in 1..NumClients : WF_vars(DlUpdateSend(h, r))
        /\ WF_vars(DlUpdateReturn(h))
        /\ WF_vars(\E ok \in BOOLEAN : DlChtimes(h, ok))
        /\ WF_vars(DlClose(h))
        /\ WF_vars(DlDispose(h))
        /\ WF_vars(DlDelete(h))

\* A handler goroutine parked in the select of Read runs once done is
\* closed.
ReaderRuns == \A r \in 1..NumClients : WF_vars(RecvDone(r))

ReaderSpec == Init /\ [][LiveNext]_vars /\ DlRuns /\ ReaderRuns

\* ------------------------------------------------------------ properties
\* The downloaders that are alive: spawned, and not yet through with
\* their tempfile and their registry entry.
Alive == {h \in Handles : handles[h].dl \notin {"none", "end"}}

\* Request r went through the cache-through branch and its response was
\* sent to the end: no error status, no disconnect, no panic.
Served(r) ==
    /\ req[r].pc = "done"
    /\ req[r].handle # 0
    /\ ~req[r].gone
    /\ req[r].w.status \in {StatusOK, StatusPartialContent}
    /\ req[r].lastRead.err # "panic"

\* Bytes k+1.. of the body of version v.
BodyFrom(v, k) == SubSeq(Body(v), k + 1, BodySize)

\* Request r is a GET that found no cache file.
UncachedGet(r) == req[r].method = "GET" /\ req[r].pc # "idle" /\ req[r].cacheFile = 0

\* C1 as stated: when all clients GET the uncached path concurrently and
\* are served, the upstream has received exactly one request and every
\* client has the upstream body.
C1_OneUpstreamRequest ==
    (/\ \A r \in Clients : UncachedGet(r) /\ Served(r)
     /\ \A r1, r2 \in Clients : r1 < r2 => r1 \in req[r2].overlap)
    => /\ upstreamReqs = 1
       /\ \A r \in Clients : req[r].w.out = BodyFrom(req[r].resp.ver, req[r].rangeStart)

\* C1 amended: every client request that passes the method gate issues
\* its own upstream request (N requests for N clients), and every client
\* served through the cache receives, byte for byte, the body of an
\* upstream version from the start of its range; a client streaming from
\* the tempfile receives the body its handle downloads.
C1_OneRequestPerClient ==
    /\ upstreamReqs = Cardinality({r \in Clients : /\ req[r].pc \notin {"idle", "do"}
                                                   /\ req[r].method \in {"GET", "HEAD"}})
    /\ \A r \in Clients : Served(r) =>
          /\ \E v \in 1..upVer : req[r].w.out = BodyFrom(v, req[r].rangeStart)
          /\ req[r].rd.kind = "partial" =>
                req[r].w.out = BodyFrom(handles[req[r].handle].ver, req[r].rangeStart)

\* C1 witness: two concurrent clients of the uncached path share one
\* handle, both are served the whole body, the upstream saw two requests.
C1_Witness ==
    /\ \A r \in Clients : UncachedGet(r) /\ Served(r) /\ req[r].handle = 1
                          /\ req[r].rangeStart = 0 /\ req[r].w.out = Body(1)
    /\ 1 \in req[2].overlap
    /\ allocated = 1
    /\ upstreamReqs = 2

\* C2 as stated: among GETs in flight concurrently while no cache file
\* exists, at most one downloader is spawned in total (no download
\* failing).
C2_OneDownloaderInTotal ==
    (\A h \in Handles : ~handles[h].err) =>
        \A r1, r2 \in Clients :
            (r1 < r2 /\ r1 \in req[r2].overlap /\ UncachedGet(r1) /\ UncachedGet(r2))
            => ~\E h1, h2 \in Handles :
                   /\ h1 # h2
                   /\ handles[h1].dl # "none" /\ handles[h1].owner = r1
                   /\ handles[h2].dl # "none" /\ handles[h2].owner = r2

\* C3: the file at the cache path is absent or holds the complete body
\* of the 200 response its handle downloaded; it got there by the rename
\* of a tempfile whose writer was closed.
C3_CacheFileComplete ==
    cachePath # 0 =>
        /\ files[cachePath].content = Body(handles[cachePath].ver)
        /\ Len(files[cachePath].content) = handles[cachePath].size
        /\ handles[cachePath].ver \in 1..upVer
        /\ handles[cachePath].renamed
        /\ handles[cachePath].done
        /\ ~files[cachePath].temp

\* C3 witness: a cache file was published and then replaced by the rename
\* of a second download.
C3_Witness ==
    /\ cachePath = 2
    /\ handles[1].renamed
    /\ handles[2].ver = 2

\* C4 as stated: a request with a method other than GET or HEAD receives
\* status 405 with the body "Only HEAD or GET allowed\n".
C4_Rejected405 ==
    \A r \in Clients :
        (req[r].pc = "done" /\ req[r].method \notin {"GET", "HEAD"})
        => /\ req[r].w.status = StatusMethodNotAllowed
           /\ req[r].w.out = OnlyHeadOrGetMsg

\* Version of the object in the cache file request r opened.
CachedVer(r) == handles[req[r].cacheFile].ver

\* C5: the round trip of sequential GETs.  A request that finds no cache
\* file sends no If-Modified-Since and gets 200.  A request that finds one
\* sends its mtime, which is the Last-Modified of the cached object; if
\* the upstream still has that object it answers 304 and the request
\* serves the cached bytes without a handle (nothing of them reaches a
\* client that has disconnected); if the upstream has a newer
\* one it answers 200 and the request downloads into a new tempfile.
\* Every download that ends in a rename leaves its object's body and
\* Last-Modified at the cache path, until a later download replaces it.
C5_RoundTrip ==
    /\ \A r \in Clients : req[r].pc \notin {"idle", "do"} =>
          IF req[r].cacheFile = 0
          THEN req[r].ims = 0 /\ req[r].resp.status = StatusOK
          ELSE /\ req[r].ims = LastModified(CachedVer(r))
               /\ req[r].resp.ver = CachedVer(r) =>
                     /\ req[r].resp.status = StatusNotModified
                     /\ req[r].handle = 0
                     /\ req[r].w = [status |-> StatusOK,
                                    out |-> IF req[r].gone THEN <<>>
                                            ELSE Body(CachedVer(r))]
               /\ req[r].resp.ver # CachedVer(r) =>
                     /\ req[r].resp.status = StatusOK
                     /\ req[r].pc # "los" => req[r].handle \notin {0, req[r].cacheFile}
    /\ \A h \in Handles : handles[h].renamed =>
          /\ files[h].content = Body(handles[h].ver)
          /\ files[h].mtime = LastModified(handles[h].ver) * TicksPerSec
          /\ (\A g \in Handles : g > h => ~handles[g].renamed) => cachePath = h

\* C5 witness: the first request caches version 1, the second is answered
\* 304 and served from disk, the third downloads version 2, which replaces
\* the cache file.
C5_Witness ==
    /\ \A r \in 1..3 : req[r].pc = "done"
    /\ req[1].handle = 1 /\ req[1].w.out = Body(1)
    /\ req[2].resp.status = StatusNotModified /\ req[2].ims = LastModified(1)
    /\ req[2].handle = 0 /\ req[2].w.out = Body(1)
    /\ req[3].resp.status = StatusOK /\ req[3].ims = LastModified(1)
    /\ req[3].handle = 2 /\ req[3].w.out = Body(2)
    /\ cachePath = 2
    /\ files[2].content = Body(2)
    /\ files[2].mtime = LastModified(2) * TicksPerSec

\* The upstream answered request q with a 200 carrying Content-Length, a
\* parseable Last-Modified and Accept-Ranges: bytes, and q is a GET.
CachableRequest(q) ==
    /\ q.method = "GET"
    /\ q.resp.status = StatusOK
    /\ q.resp.cl >= 0
    /\ q.resp.lm >= 1
    /\ q.resp.ar

\* C6: a step that changes a file, the cache path or the registry is a
\* step of a cachable GET request or of the downloader such a request
\* spawned; no other request changes any of them.
C6_OnlyCachableRequestsWrite ==
    [][<<files, cachePath, objectHandles, allocated>>' # <<files, cachePath, objectHandles, allocated>>
       => \E r \in Clients :
             /\ CachableRequest(req'[r])
             /\ \/ req'[r].pc # req[r].pc
                \/ \E h \in Handles : handles[h].owner = r /\ handles'[h].dl # handles[h].dl]_vars

\* C6 witness: a HEAD answered with all the headers and a GET answered 404
\* have both ended and no file, tempfile or handle exists.
C6_Witness ==
    /\ req[1].pc = "done" /\ req[1].method = "HEAD" /\ req[1].resp.kind = "ok"
    /\ req[2].pc = "done" /\ req[2].method = "GET" /\ req[2].resp.kind = "notfound"
    /\ req[2].w.out = ErrorPage
    /\ allocated = 0 /\ cachePath = 0 /\ objectHandles = 0
    /\ \A i \in DOMAIN files : files[i] = NewFile

\* C7 as stated, read leniently (a failure of the body, of a write to the
\* tempfile or of Chtimes excuses the downloader): once a downloader has
\* been spawned, whatever the clients do, it eventually has closed its
\* writer, renamed its tempfile to the cache path and removed its handle
\* from the registry.
C7_DownloaderCompletes ==
    \A h \in 1..NumClients :
        (handles[h].dl = "copy") ~>
            \/ handles[h].err
            \/ /\ handles[h].dl = "end"
               /\ handles[h].done
               /\ handles[h].renamed
               /\ objectHandles # h

\* C8 as stated: after done with written < size, a read at the final
\* written position that delivers no byte returns end-of-stream.
C8_EOFAtFinalWritten ==
    \A r \in Clients :
        (/\ req[r].rd.kind = "partial"
         /\ handles[req[r].rd.inode].done
         /\ handles[req[r].rd.inode].written < handles[req[r].rd.inode].size
         /\ req[r].rd.pos = handles[req[r].rd.inode].written
         /\ req[r].lastRead.n = 0 /\ req[r].lastRead.err # "none")
        => req[r].lastRead.err = "EOF"

\* C9: what a partial reader has delivered after a seek to k is the body's
\* bytes from offset k on, and never a byte the writer has not written;
\* a reader served to the end has delivered up to the last byte.
C9_RangeFromSeek ==
    \A r \in Clients : req[r].rd.kind = "partial" =>
        LET k == req[r].rangeStart
            n == Len(req[r].w.out)
            hd == handles[req[r].rd.inode]
        IN /\ req[r].w.out = SubSeq(Body(hd.ver), k + 1, k + n)
           /\ n > 0 => k + n <= hd.written
           /\ Served(r) => k + n = hd.size

\* C9 witness: a reader that seeked to offset 1 is parked although the
\* writer has written 1 byte, having delivered nothing.
C9_Witness ==
    \E r \in Clients :
        /\ req[r].rangeStart = 1 /\ req[r].pc = "parked"
        /\ req[r].rd.readyPos = 1 /\ handles[req[r].rd.inode].written = 1
        /\ req[r].w.out = <<>>

\* C10: at most one downloader is alive, its handle is the one in the
\* registry, and it belongs to a handle whose once has run.
C10_OneDownloaderAlive ==
    /\ Cardinality(Alive) <= 1
    /\ \A h \in Alive : objectHandles = h /\ handles[h].once

\* C10 witness: the first handle's downloader has ended and a second
\* handle's downloader is copying.
C10_Witness ==
    /\ handles[1].dl = "end"
    /\ handles[2].dl = "update"
    /\ handles[2].written = 1

\* C11 as stated: one call of update sends at most once to each reader:
\* a reader it has already sent to is not sent to again before Write
\* returns.
C11_OneDeliveryPerReader ==
    [][\A r \in Clients :
          (req[r].pc = "parked" /\ req'[r].pc = "read")
          => r \notin handles[req[r].rd.inode].sent]_vars

\* C12: a reader parked in Read is eventually unparked while the
\* downloader keeps running.  It leaves the select either with the value
\* of written sent by a Write that has not returned yet, or through done,
\* and then adopts the final value of written; the downloader is past
\* Close in that case.
C12_ParkedReaderUnparked ==
    /\ \A r \in 1..NumClients : (req[r].pc = "parked") ~> (req[r].pc # "parked")
    /\ [][\A r \in Clients :
             (req[r].pc = "parked" /\ req'[r].pc # "parked") =>
                 LET hd == handles[req[r].rd.inode]
                 IN /\ req'[r].rd.readyPos = hd.written
                    /\ \/ req'[r].pc = "read" /\ hd.dl = "update" /\ ~hd.done
                       \/ /\ req'[r].pc = "ready" /\ hd.done
                          /\ hd.dl \in {"dispose", "delete", "end"}]_vars

\* C12 witness: the copy failed after one byte; a reader that parked at
\* offset 1 has left the select through done with readyPos 1.
C12_Witness ==
    \E r \in Clients :
        /\ req[r].pc = "ready"
        /\ handles[req[r].rd.inode].done /\ handles[req[r].rd.inode].err
        /\ handles[req[r].rd.inode].written = 1
        /\ req[r].rd.pos = 1 /\ req[r].rd.readyPos = 1

\* C13: for every trackingWriter 0 <= written <= size and the tempfile
\* holds exactly written bytes; Close is never called on a closed writer;
\* written never decreases; done is raised once, by Close, after the last
\* write, and is never lowered; once done is raised written is frozen.
C13_WriterInvariants ==
    /\ [](\A h \in Handles :
            /\ 0 <= handles[h].written /\ handles[h].written <= handles[h].size
            /\ handles[h].tempPath # 0 => Len(files[h].content) = handles[h].written
            /\ handles[h].dl \in {"copy", "update", "close"} => ~handles[h].done
            /\ handles[h].dl \in {"dispose", "delete", "end"} => handles[h].done)
    /\ [][\A h \in Handles :
             /\ handles'[h].written >= handles[h].written
             /\ handles[h].done => handles'[h].done /\ handles'[h].written = handles[h].written
             /\ (handles'[h].done /\ ~handles[h].done) =>
                    handles[h].dl = "close" /\ handles'[h].written = handles[h].written]_vars

\* C13 witness: a writer was closed after a failed copy with written = 1,
\* short of size, and its downloader has ended.
C13_Witness ==
    \E h \in Handles :
        /\ handles[h].dl = "end" /\ handles[h].done /\ handles[h].err
        /\ handles[h].written = 1 /\ handles[h].written < handles[h].size

\* C14: every partial reader has readyPos <= written of its writer, and
\* the tempfile holds written bytes; a Read that returns bytes, to the
\* sniff buffer or to the client, returns the n >= 1 bytes of the tempfile
\* at offsets pos .. pos+n-1, with pos + n <= readyPos, and advances pos
\* by n.
C14_ReadWithinReady ==
    /\ [](\A r \in Clients : req[r].rd.kind = "partial" =>
            /\ 0 <= req[r].rd.readyPos
            /\ req[r].rd.readyPos <= WriterOf(req[r].rd).written
            /\ WriterOf(req[r].rd).written = Len(files[req[r].rd.inode].content))
    /\ [][\A r \in Clients :
             (/\ req[r].pc \in {"read", "ready"}
              /\ \/ req'[r].rd.pos # req[r].rd.pos
                 \/ req'[r].w.out # req[r].w.out
                 \/ req'[r].buf # req[r].buf) =>
                 LET rd == req[r].rd
                     n == req'[r].rd.pos - rd.pos
                     bytes == SubSeq(files[rd.inode].content, rd.pos + 1, rd.pos + n)
                 IN /\ n >= 1
                    /\ rd.pos + n <= rd.readyPos
                    /\ IF req[r].phase = "sniff"
                       THEN req'[r].buf = req[r].buf \o bytes /\ req'[r].w = req[r].w
                       ELSE /\ req'[r].buf = req[r].buf
                            /\ IF req'[r].gone
                               THEN req'[r].w = req[r].w
                               ELSE req'[r].w.out = req[r].w.out \o bytes]_vars

\* C14 witness: a reader told of one written byte has read exactly that
\* byte into the sniff buffer, which is not full yet, although the writer
\* has committed more since; nothing was sent to the client.
C14_Witness ==
    \E r \in Clients :
        /\ req[r].rd.kind = "partial" /\ req[r].phase = "sniff" /\ req[r].pc = "read"
        /\ req[r].rd.pos = 1 /\ req[r].rd.readyPos = 1
        /\ WriterOf(req[r].rd).written > 1
        /\ Len(req[r].buf) = 1 /\ req[r].w.status = 0

\* The once-only init of handle h ran and failed: no tempfile, no
\* downloader.
InitFailed(h) == handles[h].once /\ handles[h].tempPath = 0

\* C15 as stated: a request whose handle's init failed is answered 500
\* and the handle is no longer the registry entry once the request has
\* ended.
C15_InitFailureReleases ==
    \A r \in Clients :
        (req[r].pc = "done" /\ req[r].handle # 0 /\ InitFailed(req[r].handle))
        => /\ req[r].w.status = StatusInternalServerError
           /\ objectHandles # req[r].handle

\* C16 as stated: when Get, on a handle whose init succeeded, finds the
\* tempfile gone and returns the file at the cache path, the handle's
\* downloader has renamed its tempfile and the file returned is that
\* tempfile.
C16_FallbackIsOwnDownload ==
    \A r \in Clients :
        (req[r].rd.kind = "file" /\ ~InitFailed(req[r].handle))
        => /\ handles[req[r].handle].renamed
           /\ req[r].rd.inode = req[r].handle

\* The body copy of handle h's downloader failed before the last byte.
CopyFailed(h) == handles[h].err /\ handles[h].written < handles[h].size

\* C17: after a failed copy the downloader, once the write that failed
\* has returned from its send loop, closes the writer, then unlinks the
\* tempfile, then removes the handle from the registry, and
\* ends; it never renames, none of its steps changes the cache path or the
\* file there, and it writes nothing more (no retry).  A request that
\* consults the registry afterwards never gets the ended handle: it
\* installs a handle whose init has not run.
C17_CopyFailureCleansUp ==
    /\ [](\A h \in Handles : CopyFailed(h) =>
            /\ ~handles[h].renamed /\ cachePath # h
            /\ handles[h].dl \in {"update", "close", "dispose", "delete", "end"}
            /\ handles[h].dl \in {"delete", "end"} => handles[h].done /\ ~files[h].temp
            /\ handles[h].dl = "end" => objectHandles # h)
    /\ [][/\ \A h \in Handles : CopyFailed(h) =>
                /\ handles'[h].written = handles[h].written
                /\ handles'[h].dl # handles[h].dl =>
                       /\ cachePath' = cachePath
                       /\ cachePath # 0 => files'[cachePath] = files[cachePath]
                       /\ handles[h].dl = "update" =>
                              handles'[h].dl = "close" /\ ~handles'[h].done /\ files'[h].temp
                       /\ handles[h].dl = "close" =>
                              handles'[h].dl = "dispose" /\ handles'[h].done /\ files'[h].temp
                       /\ handles[h].dl = "dispose" =>
                              handles'[h].dl = "delete" /\ ~files'[h].temp /\ objectHandles' = h
                       /\ handles[h].dl = "delete" =>
                              handles'[h].dl = "end" /\ objectHandles' = 0
                       /\ handles[h].dl # "end"
          /\ \A r \in Clients :
                (req[r].pc = "los" /\ req'[r].pc = "get") =>
                    /\ handles[req'[r].handle].dl # "end"
                    /\ objectHandles = 0 => /\ ~handles[req'[r].handle].once
                                            /\ objectHandles' = req'[r].handle]_vars

\* C17 witness: the first download failed mid-stream and its downloader
\* has ended; the cache file of the earlier version is untouched; a later
\* request has installed a second handle, whose downloader is copying.
C17_Witness ==
    /\ CopyFailed(1) /\ handles[1].written = 1 /\ handles[1].dl = "end"
    /\ ~files[1].temp
    /\ cachePath = NumClients + 1 /\ files[cachePath].content = Body(1)
    /\ objectHandles = 2 /\ handles[2].dl = "copy" /\ handles[2].owner = 2

\* Chtimes failed in handle h's downloader: the copy was complete.
ChtimesFailed(h) == handles[h].err /\ handles[h].written = handles[h].size

\* C18: the rename is the downloader's step after Close, taken with the
\* whole body written and the tempfile's mtime already set to the
\* Last-Modified of the response being downloaded; it carries content and
\* mtime to the cache path and nothing changes the file afterwards.  When
\* Chtimes failed the tempfile is unlinked and not renamed.  So the file
\* at the cache path always has the mtime that formats to the
\* Last-Modified of its object.
C18_RenameAfterMtime ==
    /\ [](cachePath # 0 =>
            /\ files[cachePath].mtime = ParseHTTPTime(LastModified(handles[cachePath].ver)).t
            /\ FormatHTTPTime(files[cachePath].mtime) = LastModified(handles[cachePath].ver))
    /\ [](\A h \in Handles :
            (ChtimesFailed(h) /\ handles[h].dl \in {"delete", "end"})
            => ~handles[h].renamed /\ ~files[h].temp /\ cachePath # h)
    /\ [][\A h \in Handles :
             /\ (cachePath' = h /\ cachePath # h) =>
                    /\ handles[h].dl = "dispose" /\ handles[h].done /\ ~handles[h].err
                    /\ handles[h].written = handles[h].size
                    /\ files[h].mtime = handles[h].modTime
                    /\ files[h].temp
                    /\ files'[h] = [files[h] EXCEPT !.temp = FALSE]
                    /\ handles'[h].renamed
             /\ handles[h].renamed => files'[h] = files[h]]_vars

\* C18 witness: the first download is at the cache path with its
\* Last-Modified as mtime; the second download was complete, Chtimes
\* failed on it and its tempfile was unlinked with the mtime of its
\* creation.
C18_Witness ==
    /\ cachePath = 1 /\ files[1].mtime = ParseHTTPTime(LastModified(handles[1].ver)).t
    /\ ChtimesFailed(2) /\ handles[2].dl = "end"
    /\ ~files[2].temp /\ files[2].mtime = NowTicks

\* C19 as stated: once a request that obtained an upstream response has
\* ended, and the downloader it spawned, if any, has ended, the body of
\* that response has been closed exactly once.
C19_BodyClosedOnce ==
    \A r \in Clients :
        (/\ req[r].pc = "done"
         /\ req[r].resp.kind # "none"
         /\ \A h \in Handles : handles[h].owner = r => handles[h].dl = "end")
        => req[r].bodyClosed = 1

\* C20 as stated: a Read that has left the wait loop reaches the clamp
\* with pos <= readyPos, and no Read fails with a slice bound out of
\* range.
C20_ClampNonNegative ==
    \A r \in Clients :
        /\ req[r].pc = "ready" => req[r].rd.pos <= req[r].rd.readyPos
        /\ req[r].lastRead.err # "panic"

=============================================================================
